---- MODULE Spec2Model ----
(***************************************************************************)
(* Plant-record derived-value computation and formula-variable store of   *)
(* plant-project-v.  The repository carries two implementations of the     *)
(* same service: the Django application (src/backend/plant_data) and the   *)
(* FastAPI application (src/fastapi_backend/app).  The variable `backend'  *)
(* selects which implementation serves the run; both share the shape of    *)
(* the store and of a record.                                              *)
(*                                                                         *)
(* Numbers.  Raw inputs, coefficients and stored derived values are        *)
(* decimals with two places; they are held as integers counting            *)
(* hundredths (10000 is 100.00).  Intermediate products are carried        *)
(* exactly and rounded to two places when stored, in the rounding mode of  *)
(* the deployment (`rounding').  The bounded inputs keep every value       *)
(* inside the columns' digit limits and avoid non-terminating quotients    *)
(* on a rounding tie, where 28-digit Decimal or binary float arithmetic    *)
(* would differ from exact arithmetic.                                     *)
(***************************************************************************)
EXTENDS Integers, Sequences, FiniteSets, TLC

VARIABLES backend,     \* "django" or "fastapi": the implementation serving the run
          rounding,    \* how the database rounds a tie to two places
          variables,   \* formula_variables table: name -> [value, default_value]
          records,     \* plant_records table: id -> row, or NoRecord
          meta,        \* history of the last save of each record
          dj_save,     \* Django PlantRecord.save in progress
          dj_reset,    \* Django reset_all loop in progress
          observedPartial, \* a reader saw a partly applied reset_all
          requests,    \* number of requests served or begun so far
          response,    \* the answer to the last request that named one coefficient
          plant_rows,  \* plant_records as access control sees it: id -> plant_id, code
          current_user, \* the authenticated user of the plant-record requests
          pr_response, \* the answer to the last plant-record request
          roles,       \* Django users_role table: id -> category, parent, level
          role_tx,     \* role updates that are validated and not yet saved
          users,       \* Django users_user table: id -> role category and password flags
          mgmt_response \* the answer to the last user, plant or role request

\* the state of the calculation and of the coefficient store
plantVars == <<backend, rounding, variables, records, meta, dj_save, dj_reset,
               observedPartial, requests, response>>

\* the state of access control and of user management
prVars == <<plant_rows, current_user, pr_response>>

\* the role hierarchy of the Django users application
roleVars == <<roles, role_tx>>

\* the accounts of the Django users application
accountVars == <<users, mgmt_response>>

accessVars == <<prVars, roleVars, accountVars>>

vars == <<plantVars, accessVars>>

-----------------------------------------------------------------------------
(* Bounds *)

MaxRecords == 2
MaxRequests == 3
MaxRoles == 3
MaxInFlight == 2
MaxUsers == 2

-----------------------------------------------------------------------------
(* Values *)

\* a NULL column / Python None
NULL == -1000000000

NoRecord == [stored |-> FALSE]

RecordIds == 1..MaxRecords

RawFields == {"rate", "mv", "oil", "fiber", "starch", "maize_rate"}

DerivedFields == {"dm", "rate_on_dm", "oil_value", "net_wo_oil_fiber",
                  "starch_per_point", "starch_value", "grain", "doc"}

\* the five coefficients PlantRecord.calculate_derived_values of the Django
\* application looks up, in the order it looks them up
DjLookupOrder == <<"dm_factor", "oil_value_factor", "net_factor",
                   "starch_per_point_divisor", "grain_factor">>

DjCoefNames == {DjLookupOrder[i] : i \in 1..Len(DjLookupOrder)}

\* the hard-coded fallbacks of the Django calculation (Decimal('100'), ...)
DjFallback == [dm_factor |-> 10000, oil_value_factor |-> 6000,
               net_factor |-> 10000, starch_per_point_divisor |-> 6400,
               grain_factor |-> 70]

\* the coefficients the FastAPI calculation reads, with its variables.get defaults
FaCoefNames == {"dm_factor", "oil_factor", "net_wo_factor",
                "starch_per_point_factor", "grain_factor", "doc_factor"}

FaFallback == [dm_factor |-> 10000, oil_factor |-> 100, net_wo_factor |-> 100,
               starch_per_point_factor |-> 100, grain_factor |-> 100,
               doc_factor |-> 100]

Abs(x) == IF x < 0 THEN -x ELSE x

\* n/d rounded to the nearest integer, ties by the deployment's rounding mode
RoundDiv(n, d, mode) ==
    LET nn == IF d < 0 THEN -n ELSE n
        dd == Abs(d)
        a  == Abs(nn)
        q  == a \div dd
        r  == a % dd
        up == \/ 2 * r > dd
              \/ 2 * r = dd /\ (mode = "HALF_UP" \/ q % 2 = 1)
        m  == IF up THEN q + 1 ELSE q
    IN  IF nn < 0 THEN -m ELSE m

\* formula_vars[var.name] = var.value ; variables.get(name, fallback)
Get(store, name, fallback) ==
    IF name \in DOMAIN store THEN store[name].value ELSE fallback

Raw(rate, mv, oil, fiber, starch, maize_rate) ==
    [rate |-> rate, mv |-> mv, oil |-> oil, fiber |-> fiber,
     starch |-> starch, maize_rate |-> maize_rate]

NoDerived == [f \in DerivedFields |-> NULL]

\* a row of plant_records: the six raw columns and the eight derived ones
Row(raw, d) == [stored |-> TRUE, raw |-> raw, d |-> d]

-----------------------------------------------------------------------------
(* Django: PlantRecord.calculate_derived_values, given the five values the  *)
(* lookups returned.  The result is the row as the database stores it.      *)

DjCalc(raw, c, mode) ==
    LET dm == c.dm_factor - raw.mv
    IN  IF dm = 0
        THEN [ok |-> FALSE, step |-> "rate_on_dm", assigned |-> {"dm"}]
        ELSE IF c.starch_per_point_divisor = 0
        THEN [ok |-> FALSE, step |-> "starch_per_point",
              assigned |-> {"dm", "rate_on_dm", "oil_value", "net_wo_oil_fiber"}]
        ELSE [ok |-> TRUE, assigned |-> DerivedFields,
              d |-> [dm |-> dm,
                     rate_on_dm |-> RoundDiv(raw.rate * 10000, dm, mode),
                     oil_value |-> RoundDiv(c.oil_value_factor * raw.oil, 100, mode),
                     net_wo_oil_fiber |-> c.net_factor - raw.oil - raw.fiber,
                     starch_per_point |->
                         RoundDiv(raw.maize_rate * 100, c.starch_per_point_divisor, mode),
                     starch_value |->
                         RoundDiv(raw.starch * raw.maize_rate,
                                  c.starch_per_point_divisor, mode),
                     grain |-> RoundDiv(raw.starch * c.grain_factor, 100, mode),
                     doc |-> RoundDiv(raw.starch * 100 - raw.starch * c.grain_factor,
                                      100, mode)]]

-----------------------------------------------------------------------------
(* FastAPI: PlantRecord.calculate_derived_values(variables).  raw may hold   *)
(* NULL; prev is what the eight derived attributes held before the call      *)
(* (NULL on a new object, the stored values on an update).  Values computed  *)
(* in this call stay unrounded floats until the row is written, so a later   *)
(* step uses them at four places (x4 counts 1/10000); a value left from the  *)
(* previous save is used as stored.                                          *)

FaCalc(raw, prev, store, mode) ==
    LET dm_factor == Get(store, "dm_factor", FaFallback.dm_factor)
        oil_factor == Get(store, "oil_factor", FaFallback.oil_factor)
        net_wo_factor == Get(store, "net_wo_factor", FaFallback.net_wo_factor)
        starch_per_point_factor ==
            Get(store, "starch_per_point_factor", FaFallback.starch_per_point_factor)
        grain_factor == Get(store, "grain_factor", FaFallback.grain_factor)
        doc_factor == Get(store, "doc_factor", FaFallback.doc_factor)
        \* if mv_value is not None: self.dm = 100 - mv_value
        dmSet == raw.mv # NULL
        dm == IF dmSet THEN 10000 - raw.mv ELSE prev.dm
        \* if rate_value is not None and self.dm is not None and float(self.dm) > 0
        rodSet == raw.rate # NULL /\ dm # NULL /\ dm > 0
        rate_on_dm == IF rodSet THEN RoundDiv(raw.rate * 10000, dm, mode)
                      ELSE prev.rate_on_dm
        \* if oil_value_pct is not None: self.oil_value = oil_value_pct * oil_factor
        ovSet == raw.oil # NULL
        ov4 == IF ovSet THEN raw.oil * oil_factor
               ELSE IF prev.oil_value = NULL THEN NULL ELSE prev.oil_value * 100
        \* if rate_value is not None and self.oil_value is not None and fiber_value is not None
        netSet == raw.rate # NULL /\ ov4 # NULL /\ raw.fiber # NULL
        net4 == raw.rate * 100 - ov4 - raw.fiber * net_wo_factor
        \* if starch_value is not None and starch_value > 0
        sppSet == raw.starch # NULL /\ raw.starch > 0
        spp == IF sppSet THEN RoundDiv(starch_per_point_factor * 100, raw.starch, mode)
               ELSE prev.starch_per_point
        \* if starch_value is not None and self.starch_per_point is not None
        svSet == raw.starch # NULL /\ spp # NULL
        sv4 == IF svSet
               THEN (IF sppSet THEN starch_per_point_factor * 100
                     ELSE raw.starch * prev.starch_per_point)
               ELSE IF prev.starch_value = NULL THEN NULL ELSE prev.starch_value * 100
        \* if self.starch_value is not None
        grainSet == sv4 # NULL
        \* if self.starch_value is not None and self.oil_value is not None
        docSet == sv4 # NULL /\ ov4 # NULL
    IN  [ok |-> TRUE,
         assigned |-> {f \in DerivedFields :
                          \/ f = "dm" /\ dmSet
                          \/ f = "rate_on_dm" /\ rodSet
                          \/ f = "oil_value" /\ ovSet
                          \/ f = "net_wo_oil_fiber" /\ netSet
                          \/ f = "starch_per_point" /\ sppSet
                          \/ f = "starch_value" /\ svSet
                          \/ f = "grain" /\ grainSet
                          \/ f = "doc" /\ docSet},
         read |-> [dm_factor |-> dm_factor, oil_factor |-> oil_factor,
                   net_wo_factor |-> net_wo_factor,
                   starch_per_point_factor |-> starch_per_point_factor,
                   grain_factor |-> grain_factor, doc_factor |-> doc_factor],
         d |-> [dm |-> dm,
                rate_on_dm |-> rate_on_dm,
                oil_value |-> IF ovSet THEN RoundDiv(ov4, 100, mode) ELSE prev.oil_value,
                net_wo_oil_fiber |-> IF netSet THEN RoundDiv(net4, 100, mode)
                                     ELSE prev.net_wo_oil_fiber,
                starch_per_point |-> spp,
                starch_value |-> IF svSet THEN RoundDiv(sv4, 100, mode)
                                 ELSE prev.starch_value,
                grain |-> IF grainSet THEN RoundDiv(sv4 * grain_factor, 10000, mode)
                          ELSE prev.grain,
                doc |-> IF docSet THEN RoundDiv((sv4 + ov4) * doc_factor, 10000, mode)
                        ELSE prev.doc]]

-----------------------------------------------------------------------------
(* Inputs of the bounded exploration *)

\* the scenario of the specification, the mv = 100 boundary, and a small
\* starch whose grain falls on a rounding tie
Scenario == Raw(10000, 1000, 500, 300, 5000, 8000)

DjRawInputs == {Scenario,
                Raw(10000, 10000, 500, 300, 5000, 8000),
                Raw(10000, 0, 500, 300, 5, 8000)}

\* PlantRecordBase of app/schemas/plant_record.py declares the raw inputs Optional
FaRawInputs == DjRawInputs \cup {Raw(10000, NULL, 500, 300, 0, 8000),
                                  Raw(10000, 15000, 500, 300, 5000, 8000)}

\* bodies of PATCH /plant-records/{id}: the fields the request sets
FaPatches == {"mv" :> 10000, "mv" :> 1000, "starch" :> 0, "oil" :> NULL}

\* the coefficients the administrator's requests name, and the values written
AdminNames == {"dm_factor", "grain_factor", "starch_per_point_divisor", "oil_factor"}

CoefValues == {0, 1000}

\* the name an administrator types into the name field of the admin change form
FormName == "moisture_factor"

\* the rows 0004_populate_formula_variables inserts (section 6 of the specification)
DjSeed == [n \in DjCoefNames |-> [value |-> DjFallback[n], default_value |-> DjFallback[n]]]

\* default_variables of app/db/init_db.py
InitDbDefaults == [dm_factor |-> 10000, oil_value_factor |-> 6000,
                   net_factor |-> 10000, starch_per_point_divisor |-> 6400,
                   grain_factor |-> 70]

\* default_variables of init_database.py create_formula_variables
InitDatabaseDefaults == [dm_factor |-> 10000, oil_factor |-> 250,
                         net_wo_factor |-> 150, starch_per_point_factor |-> 10000,
                         grain_factor |-> 120, doc_factor |-> 105]

\* default_variables of create_formula_variables.py
CreateDefaults == [dm_factor |-> 10000, oil_factor |-> 250,
                   net_wo_factor |-> 150, starch_per_point_factor |-> 10000,
                   grain_factor |-> 120, doc_factor |-> 105]

\* the answers to "Enter your choice (1-3)" of create_formula_variables.py
Choices == {"1", "2", "3", "4"}

EmptyStore == [n \in {} |-> [value |-> 0, default_value |-> 0]]

NoMeta == [saved |-> FALSE]

Idle == [pc |-> 0]

NotResetting == [running |-> FALSE]

NoResponse == [op |-> "none", status |-> 0]

\* an HTTP response: the operation that was requested and the status code
Response(op, status) == [op |-> op, status |-> status]

\* plants.id of the plants in the database
Plants == {1, 2}

\* users.plant_id of a user assigned to no plant
NoPlant == 0

\* a row of users as the plant-record endpoints read it
User(is_superuser, category, plant_id) ==
    [is_superuser |-> is_superuser, category |-> category, plant_id |-> plant_id]

\* no request has authenticated yet
NoUser == User(FALSE, "none", NoPlant)

\* the accounts POST /users can create (UserCreate carries role_id, plant_id
\* and is_superuser independently), with the category of their role
Accounts == {User(TRUE, "super_admin", NoPlant),
             User(FALSE, "admin", 1),
             User(FALSE, "user", 2),
             User(FALSE, "super_admin", 1),
             User(FALSE, "user", NoPlant)}

NoRow == [exists |-> FALSE]

NoPrResponse == [op |-> "none", status |-> 0, plants |-> {}, paginated |-> FALSE,
                 page |-> 0, per_page |-> 0, count |-> 0,
                 next |-> FALSE, previous |-> FALSE]

\* RoleCategory
Categories == {"SUPERADMIN", "ADMIN", "USER"}

RoleIds == 1..MaxRoles

\* Role.parent of a role without parent
NoParent == 0

NoRole == [exists |-> FALSE]

\* a row of users_role
RoleRow(category, parent, level) ==
    [exists |-> TRUE, category |-> category, parent |-> parent, level |-> level]

\* seed_superadmin -> create_superuser: Role.objects.get_or_create(
\* category=SUPERADMIN), a root role
SeedSuperadmin ==
    [i \in RoleIds |-> IF i = 1 THEN RoleRow("SUPERADMIN", NoParent, 0) ELSE NoRole]

UserIds == 1..MaxUsers

NoAccount == [exists |-> FALSE]

\* a row of users_user: the category of its role and the two password flags
Account(category, force_password_change, has_changed_password) ==
    [exists |-> TRUE, category |-> category,
     force_password_change |-> force_password_change,
     has_changed_password |-> has_changed_password]

\* User.save on an object without pk: force_password_change = True,
\* has_changed_password = False, whatever the caller passed
UserSave(account) ==
    [account EXCEPT !.force_password_change = TRUE, !.has_changed_password = FALSE]

\* seed_superadmin: create_superuser passes has_changed_password = True and
\* User.save overrides it
SeedSuperadminUser ==
    [i \in UserIds |-> IF i = 1 THEN UserSave(Account("SUPERADMIN", FALSE, TRUE))
                       ELSE NoAccount]

NoMgmtResponse == [actor |-> 0, action |-> "none", target |-> 0, status |-> 0]

-----------------------------------------------------------------------------
(* State after deployment: migrated Django database, or the empty tables     *)
(* Base.metadata.create_all leaves for the FastAPI application.              *)

Init ==
    /\ backend \in {"django", "fastapi"}
    /\ rounding \in {"HALF_UP", "HALF_EVEN"}
    /\ variables = IF backend = "django" THEN DjSeed ELSE EmptyStore
    /\ records = [i \in RecordIds |-> NoRecord]
    /\ meta = [i \in RecordIds |-> NoMeta]
    /\ dj_save = Idle
    /\ dj_reset = NotResetting
    /\ observedPartial = FALSE
    /\ requests = 0
    /\ response = NoResponse
    /\ plant_rows = [i \in RecordIds |-> NoRow]
    /\ current_user = NoUser
    /\ pr_response = NoPrResponse
    /\ roles = IF backend = "django" THEN SeedSuperadmin ELSE [i \in RoleIds |-> NoRole]
    /\ role_tx = {}
    /\ users = IF backend = "django" THEN SeedSuperadminUser
               ELSE [i \in UserIds |-> NoAccount]
    /\ mgmt_response = NoMgmtResponse

-----------------------------------------------------------------------------
(* Helpers of the actions *)

Stored(i) == records[i].stored

FreeIds == {i \in RecordIds : ~Stored(i)}

\* the id the database gives the next inserted row
NextId == CHOOSE i \in FreeIds : \A j \in FreeIds : i <= j

\* the reset_all loop has written some rows and not yet others, and both
\* kinds are visible: a row it has reset that was off its default, next to a
\* row still off its default that it is going to reset
PartialResetVisible ==
    /\ dj_reset.running
    /\ \E a \in (DOMAIN dj_reset.loaded) \ dj_reset.remaining :
          /\ dj_reset.loaded[a].value # dj_reset.loaded[a].default_value
          /\ a \in DOMAIN variables
          /\ variables[a].value = variables[a].default_value
    /\ \E b \in dj_reset.remaining :
          /\ b \in DOMAIN variables
          /\ variables[b].value # variables[b].default_value

\* a save in progress has seen every state of the store between its first
\* and its last lookup
Witnessed(newStore) ==
    IF dj_save.pc = 0 THEN dj_save
    ELSE [dj_save EXCEPT !.window = @ \cup {newStore}]

StoreWrite(newStore) ==
    /\ variables' = newStore
    /\ dj_save' = Witnessed(newStore)

-----------------------------------------------------------------------------
(* Coefficient store: requests of the Django application *)

\* the derived fields of a stored row recomputed from a state of the store
Recalculated(row, store) ==
    IF ~row.stored THEN row
    ELSE LET res == DjCalc(row.raw, [n \in DjCoefNames |-> Get(store, n, DjFallback[n])],
                           rounding)
         IN  IF res.ok THEN Row(row.raw, res.d) ELSE row

\* a PATCH whose serializer lets the request write default_value as well
DjSetValueAndDefault(name, v) ==
    /\ backend = "django"
    /\ requests < MaxRequests
    /\ name \in DOMAIN variables
    /\ StoreWrite([variables EXCEPT ![name] = [value |-> v, default_value |-> v]])
    /\ requests' = requests + 1
    /\ response' = Response("set_value", 200)
    /\ UNCHANGED <<accessVars, backend, rounding, records, meta, dj_reset, observedPartial>>

\* PATCH /formula-variables/{id}/ through FormulaVariableSerializer, whose
\* only writable field is value; the list_editable value of the admin
DjSetValue(name, v) ==
    /\ backend = "django"
    /\ requests < MaxRequests
    /\ name \in DOMAIN variables
    /\ StoreWrite([variables EXCEPT ![name].value = v])
    /\ requests' = requests + 1
    /\ response' = Response("set_value", 200)
    /\ UNCHANGED <<accessVars, backend, rounding, records, meta, dj_reset, observedPartial>>

\* a reset_to_default that also saves every stored record again
DjResetRecalc(name) ==
    /\ backend = "django"
    /\ requests < MaxRequests
    /\ name \in DOMAIN variables
    /\ StoreWrite([variables EXCEPT ![name].value = variables[name].default_value])
    /\ records' = [i \in RecordIds |->
                      Recalculated(records[i],
                          [variables EXCEPT ![name].value = variables[name].default_value])]
    /\ requests' = requests + 1
    /\ response' = Response("reset", 200)
    /\ UNCHANGED <<accessVars, backend, rounding, meta, dj_reset, observedPartial>>

\* a reset_to_default that resets every row of the table
DjResetEveryRow(name) ==
    /\ backend = "django"
    /\ requests < MaxRequests
    /\ name \in DOMAIN variables
    /\ StoreWrite([n \in DOMAIN variables |->
                      [variables[n] EXCEPT !.value = variables[n].default_value]])
    /\ requests' = requests + 1
    /\ response' = Response("reset", 200)
    /\ UNCHANGED <<accessVars, backend, rounding, records, meta, dj_reset, observedPartial>>

\* FormulaVariable.reset_to_default on one row: self.value = self.default_value;
\* self.save() (the admin action reset_to_default with one row selected)
DjReset(name) ==
    /\ backend = "django"
    /\ requests < MaxRequests
    /\ name \in DOMAIN variables
    /\ StoreWrite([variables EXCEPT ![name].value = variables[name].default_value])
    /\ requests' = requests + 1
    /\ response' = Response("reset", 200)
    /\ UNCHANGED <<accessVars, backend, rounding, records, meta, dj_reset, observedPartial>>

\* POST /formula-variables/{id}/reset/ : FormulaVariableViewSet lists no
\* 'post' in http_method_names, so dispatch answers 405 before reset runs
DjResetView(name) ==
    /\ backend = "django"
    /\ requests < MaxRequests
    /\ name \in DOMAIN variables
    /\ requests' = requests + 1
    /\ response' = Response("reset", 405)
    /\ UNCHANGED <<accessVars, backend, rounding, variables, records, meta, dj_save, dj_reset,
                   observedPartial>>

\* the delete view of the registered FormulaVariableAdmin
DjDelete(name) ==
    /\ backend = "django"
    /\ requests < MaxRequests
    /\ name \in DOMAIN variables
    /\ StoreWrite([n \in (DOMAIN variables) \ {name} |-> variables[n]])
    /\ requests' = requests + 1
    /\ response' = Response("delete", 200)
    /\ UNCHANGED <<accessVars, backend, rounding, records, meta, dj_reset, observedPartial>>

\* the change form of the registered FormulaVariableAdmin: readonly_fields
\* holds default_value, created_at and updated_at, so name is an editable
\* field of the form; the unique constraint on name rejects a name in use.
\* (Submitted while no reset_all loop holds loaded rows.)
DjChangeForm(name, newName) ==
    /\ backend = "django"
    /\ requests < MaxRequests
    /\ ~dj_reset.running
    /\ name \in DOMAIN variables
    /\ IF newName \in DOMAIN variables
       THEN /\ response' = Response("change", 400)
            /\ UNCHANGED <<variables, dj_save>>
       ELSE /\ StoreWrite([n \in ((DOMAIN variables) \ {name}) \cup {newName} |->
                              IF n = newName THEN variables[name] ELSE variables[n]])
            /\ response' = Response("change", 200)
    /\ requests' = requests + 1
    /\ UNCHANGED <<accessVars, backend, rounding, records, meta, dj_reset, observedPartial>>

-----------------------------------------------------------------------------
(* Coefficient store: requests of the FastAPI application.  The endpoints   *)
(* and CRUDFormulaVariable are in app/api/endpoints/formula_variables.py    *)
(* and app/crud/plant_data.py; the base class CRUDBase they inherit update  *)
(* and remove from (app/crud/base.py) is stated here by what its callers    *)
(* rely on.                                                                 *)

\* CRUDBase.update(db, db_obj, obj_in): the fields obj_in sets are written
\* to the row, the others stay
CRUDBaseUpdate(db_obj, obj_in) ==
    [f \in DOMAIN db_obj |-> IF f \in DOMAIN obj_in THEN obj_in[f] ELSE db_obj[f]]

\* CRUDBase.remove(db, id): the row is deleted
CRUDBaseRemove(store, name) ==
    [n \in (DOMAIN store) \ {name} |-> store[n]]

\* raise HTTPException(status_code=404): the request ends, nothing is written
NotFound(op, name) ==
    /\ response' = Response(op, 404)
    /\ UNCHANGED <<variables, dj_save>>

\* GET /formula-variables/{name}: get_by_name, 404 when the name is unknown
FaReadFormulaVariable(name) ==
    /\ backend = "fastapi"
    /\ requests < MaxRequests
    /\ IF name \in DOMAIN variables
       THEN /\ response' = Response("get", 200)
            /\ UNCHANGED <<variables, dj_save>>
       ELSE NotFound("get", name)
    /\ requests' = requests + 1
    /\ UNCHANGED <<accessVars, backend, rounding, records, meta, dj_reset, observedPartial>>

\* a PUT that creates the row when the name is unknown
FaUpsertFormulaVariable(name, v) ==
    /\ backend = "fastapi"
    /\ requests < MaxRequests
    /\ StoreWrite([n \in (DOMAIN variables) \cup {name} |->
                      IF n = name THEN [value |-> v, default_value |-> v]
                      ELSE variables[n]])
    /\ response' = Response("set_value", IF name \in DOMAIN variables THEN 200 ELSE 404)
    /\ requests' = requests + 1
    /\ UNCHANGED <<accessVars, backend, rounding, records, meta, dj_reset, observedPartial>>

\* PUT /formula-variables/{name}: 404 when the name is unknown, otherwise
\* formula_variable.update with the body's value
FaUpdateFormulaVariable(name, v) ==
    /\ backend = "fastapi"
    /\ requests < MaxRequests
    /\ IF name \in DOMAIN variables
       THEN /\ StoreWrite([variables EXCEPT ![name] = CRUDBaseUpdate(@, "value" :> v)])
            /\ response' = Response("set_value", 200)
       ELSE NotFound("set_value", name)
    /\ requests' = requests + 1
    /\ UNCHANGED <<accessVars, backend, rounding, records, meta, dj_reset, observedPartial>>

\* POST /formula-variables/reset/{name}: after the 404 check the endpoint
\* calls formula_variable.reset(db, name=name), and CRUDFormulaVariable.reset
\* takes the keyword id: the call raises TypeError (500) and nothing is written
FaResetVariable(name) ==
    /\ backend = "fastapi"
    /\ requests < MaxRequests
    /\ IF name \in DOMAIN variables
       THEN /\ response' = Response("reset", 500)
            /\ UNCHANGED <<variables, dj_save>>
       ELSE NotFound("reset", name)
    /\ requests' = requests + 1
    /\ UNCHANGED <<accessVars, backend, rounding, records, meta, dj_reset, observedPartial>>

\* DELETE /formula-variables/{name}
FaDeleteFormulaVariable(name) ==
    /\ backend = "fastapi"
    /\ requests < MaxRequests
    /\ IF name \in DOMAIN variables
       THEN /\ StoreWrite(CRUDBaseRemove(variables, name))
            /\ response' = Response("delete", 200)
       ELSE NotFound("delete", name)
    /\ requests' = requests + 1
    /\ UNCHANGED <<accessVars, backend, rounding, records, meta, dj_reset, observedPartial>>

\* GET /formula-variables/ : the reader of the whole table.  A read writes
\* nothing; only the first read of a table that a running reset_all loop has
\* left partly reset adds to the history, every other read is a stuttering step.
ListVariables ==
    /\ dj_reset.running
    /\ ~observedPartial
    /\ PartialResetVisible
    /\ observedPartial' = (observedPartial \/ PartialResetVisible)
    /\ UNCHANGED <<accessVars, backend, rounding, variables, records, meta, dj_save, dj_reset,
                   requests, response>>

\* CRUDFormulaVariable.reset_all: every row reset in the session, one commit
FaResetAll ==
    /\ backend = "fastapi"
    /\ requests < MaxRequests
    /\ StoreWrite([n \in DOMAIN variables |->
                      [variables[n] EXCEPT !.value = variables[n].default_value]])
    /\ requests' = requests + 1
    /\ UNCHANGED <<accessVars, backend, rounding, records, meta, dj_reset, observedPartial, response>>

\* the rows some request can have written since they were seeded: every other
\* row holds value = default_value for good
WrittenNames == AdminNames \cup {FormName}

\* FormulaVariableViewSet.reset_all and the bulk action reset_to_default of
\* FormulaVariableAdmin run the same loop over the rows: the queryset is
\* fetched when the loop starts.  (The view set lists no 'post' in
\* http_method_names, so the loop is reached through the admin action.)
\* An iteration over a row that no request writes saves the values the row
\* has held since seeding: it changes nothing, and only the iterations over
\* the other rows are kept as steps.
DjResetAllStart ==
    /\ backend = "django"
    /\ requests < MaxRequests
    /\ ~dj_reset.running
    /\ dj_reset' = [running |-> TRUE, loaded |-> variables,
                    remaining |-> (DOMAIN variables) \cap WrittenNames]
    /\ requests' = requests + 1
    /\ UNCHANGED <<accessVars, backend, rounding, variables, records, meta, dj_save,
                   observedPartial, response>>

\* one iteration: variable.reset_to_default() saves the row as it was loaded,
\* with value = default_value, in a transaction of its own (autocommit); a
\* row deleted since the fetch is inserted again by Model.save
DjResetAllStep(name) ==
    /\ backend = "django"
    /\ dj_reset.running
    /\ name \in dj_reset.remaining
    /\ StoreWrite([n \in (DOMAIN variables) \cup {name} |->
                      IF n = name
                      THEN [value |-> dj_reset.loaded[name].default_value,
                            default_value |-> dj_reset.loaded[name].default_value]
                      ELSE variables[n]])
    /\ dj_reset' = [dj_reset EXCEPT !.remaining = @ \ {name}]
    /\ UNCHANGED <<accessVars, backend, rounding, records, meta, observedPartial, requests, response>>

\* the loop is over: return Response(...)
DjResetAllDone ==
    /\ backend = "django"
    /\ dj_reset.running
    /\ dj_reset.remaining = {}
    /\ dj_reset' = NotResetting
    /\ UNCHANGED <<accessVars, backend, rounding, variables, records, meta, dj_save,
                   observedPartial, requests, response>>

\* a seeding routine that writes every row of defaults, existing or not
SeededOverwriting(defaults) ==
    [n \in (DOMAIN variables) \cup (DOMAIN defaults) |->
        IF n \in DOMAIN defaults
        THEN [value |-> defaults[n], default_value |-> defaults[n]]
        ELSE variables[n]]

\* a seeding routine: create the rows of defaults that do not exist, commit
Seeded(defaults) ==
    [n \in (DOMAIN variables) \cup (DOMAIN defaults) |->
        IF n \in DOMAIN variables THEN variables[n]
        ELSE [value |-> defaults[n], default_value |-> defaults[n]]]

\* app/db/init_db.py init_db
InitDb ==
    /\ backend = "fastapi"
    /\ requests < MaxRequests
    /\ StoreWrite(Seeded(InitDbDefaults))
    /\ requests' = requests + 1
    /\ UNCHANGED <<accessVars, backend, rounding, records, meta, dj_reset, observedPartial, response>>

\* init_database.py create_formula_variables
InitDatabase ==
    /\ backend = "fastapi"
    /\ requests < MaxRequests
    /\ StoreWrite(Seeded(InitDatabaseDefaults))
    /\ requests' = requests + 1
    /\ UNCHANGED <<accessVars, backend, rounding, records, meta, dj_reset, observedPartial, response>>

-----------------------------------------------------------------------------
(* Plant records *)

\* the fallback table of section 4.2 of the specification
Sec42Fallback == [dm_factor |-> 10000, oil_value_factor |-> 6000,
                  net_factor |-> 10000, starch_per_point_divisor |-> 6400,
                  grain_factor |-> 70]

\* the store with the absent coefficients of section 4.2 present at their
\* documented values
Completed(store) ==
    [n \in (DOMAIN store) \cup (DOMAIN Sec42Fallback) |->
        IF n \in DOMAIN store THEN store[n]
        ELSE [value |-> Sec42Fallback[n], default_value |-> Sec42Fallback[n]]]

\* CRUDPlantRecord.create: build the object, read the whole table in one
\* query, calculate, commit
FaCreate(raw) ==
    /\ backend = "fastapi"
    /\ requests < MaxRequests
    /\ FreeIds # {}
    /\ LET res == FaCalc(raw, NoDerived, variables, rounding)
           id == NextId
       IN  /\ records' = [records EXCEPT ![id] = Row(raw, res.d)]
           /\ meta' = [meta EXCEPT ![id] =
                  [saved |-> TRUE, window |-> {variables}, used |-> res.read,
                   missing |-> DjCoefNames \ DOMAIN variables,
                   assigned |-> res.assigned,
                   asIfPresent |->
                       FaCalc(raw, NoDerived, Completed(variables), rounding).d]]
    /\ requests' = requests + 1
    /\ observedPartial' = (observedPartial \/ PartialResetVisible)
    /\ UNCHANGED <<accessVars, backend, rounding, variables, dj_save, dj_reset, response>>

\* CRUDPlantRecord.update: apply the request to the row, read the whole
\* table in one query, recalculate on the loaded object, commit
FaUpdate(id, patch) ==
    /\ backend = "fastapi"
    /\ requests < MaxRequests
    /\ id \in RecordIds
    /\ Stored(id)
    /\ LET raw == CRUDBaseUpdate(records[id].raw, patch)
           res == FaCalc(raw, records[id].d, variables, rounding)
       IN  /\ records' = [records EXCEPT ![id] = Row(raw, res.d)]
           /\ meta' = [meta EXCEPT ![id] =
                  [saved |-> TRUE, window |-> {variables}, used |-> res.read,
                   missing |-> DjCoefNames \ DOMAIN variables,
                   assigned |-> res.assigned,
                   asIfPresent |->
                       FaCalc(raw, records[id].d, Completed(variables), rounding).d]]
    /\ requests' = requests + 1
    /\ observedPartial' = (observedPartial \/ PartialResetVisible)
    /\ UNCHANGED <<accessVars, backend, rounding, variables, dj_save, dj_reset, response>>

\* FormulaVariable.objects.get(name=...).value, or the fallback on DoesNotExist
DjLookup(name) == Get(variables, name, DjFallback[name])

\* PlantRecord.save begins (id = 0: a new row; otherwise the row the request
\* loaded): calculate_derived_values issues its first query, for dm_factor
DjSaveStart(id, raw) ==
    /\ backend = "django"
    /\ requests < MaxRequests
    /\ dj_save.pc = 0
    /\ \/ id = 0 /\ FreeIds # {}
       \/ id \in RecordIds /\ Stored(id)
    /\ dj_save' = [pc |-> 2, id |-> id, raw |-> raw,
                   used |-> <<DjLookup(DjLookupOrder[1])>>,
                   missing |-> {DjLookupOrder[1]} \ DOMAIN variables,
                   window |-> {variables}]
    /\ requests' = requests + 1
    /\ observedPartial' = (observedPartial \/ PartialResetVisible)
    /\ UNCHANGED <<accessVars, backend, rounding, variables, records, meta, dj_reset, response>>

\* the next query of calculate_derived_values, each in autocommit
DjSaveLookup ==
    /\ backend = "django"
    /\ dj_save.pc \in 2..(Len(DjLookupOrder) - 1)
    /\ dj_save' = [dj_save EXCEPT
                      !.pc = @ + 1,
                      !.used = Append(@, DjLookup(DjLookupOrder[dj_save.pc])),
                      !.missing = @ \cup ({DjLookupOrder[dj_save.pc]} \ DOMAIN variables)]
    /\ observedPartial' = (observedPartial \/ PartialResetVisible)
    /\ UNCHANGED <<accessVars, backend, rounding, variables, records, meta, dj_reset,
                   requests, response>>

\* the last query (grain_factor), the arithmetic and super().save(); a
\* division by zero raises out of save and nothing is written
DjSaveFinish ==
    /\ backend = "django"
    /\ dj_save.pc = Len(DjLookupOrder)
    /\ LET last == DjLookupOrder[Len(DjLookupOrder)]
           vals == Append(dj_save.used, DjLookup(last))
           c == [n \in DjCoefNames |->
                    vals[CHOOSE i \in 1..Len(DjLookupOrder) : DjLookupOrder[i] = n]]
           missing == dj_save.missing \cup ({last} \ DOMAIN variables)
           res == DjCalc(dj_save.raw, c, rounding)
           id == IF dj_save.id = 0 THEN NextId ELSE dj_save.id
           asIf == DjCalc(dj_save.raw,
                          [n \in DjCoefNames |->
                              IF n \in missing THEN Sec42Fallback[n] ELSE c[n]],
                          rounding)
       IN  IF res.ok
           THEN /\ records' = [records EXCEPT ![id] = Row(dj_save.raw, res.d)]
                /\ meta' = [meta EXCEPT ![id] =
                       [saved |-> TRUE, window |-> dj_save.window, used |-> c,
                        missing |-> missing, assigned |-> res.assigned,
                        asIfPresent |-> IF asIf.ok THEN asIf.d ELSE NoDerived]]
           ELSE UNCHANGED <<records, meta>>
    /\ dj_save' = Idle
    /\ observedPartial' = (observedPartial \/ PartialResetVisible)
    /\ UNCHANGED <<accessVars, backend, rounding, variables, dj_reset, requests, response>>

\* a save interrupted after it has written the new raw fields of the row
DjSaveAbortRawWritten ==
    /\ backend = "django"
    /\ dj_save.pc >= 2
    /\ dj_save.id # 0
    /\ records' = [records EXCEPT ![dj_save.id].raw = dj_save.raw]
    /\ dj_save' = Idle
    /\ response' = Response("save", 500)
    /\ UNCHANGED <<accessVars, backend, rounding, variables, meta, dj_reset, observedPartial,
                   requests>>

\* PlantRecord.save interrupted (the worker is killed, a query raises)
\* anywhere before super().save(): calculate_derived_values has only assigned
\* attributes of the object in memory, no statement has written the row
DjSaveAbort ==
    /\ backend = "django"
    /\ dj_save.pc >= 2
    /\ dj_save' = Idle
    /\ response' = Response("save", 500)
    /\ UNCHANGED <<accessVars, backend, rounding, variables, records, meta, dj_reset,
                   observedPartial, requests>>

\* CRUDPlantRecord.create interrupted before db.commit(): the object was
\* only added to the session, which is closed without a commit
FaCreateInterrupted(raw) ==
    /\ backend = "fastapi"
    /\ requests < MaxRequests
    /\ FreeIds # {}
    /\ requests' = requests + 1
    /\ response' = Response("save", 500)
    /\ UNCHANGED <<accessVars, backend, rounding, variables, records, meta, dj_save, dj_reset,
                   observedPartial>>

\* CRUDPlantRecord.update interrupted before its db.commit(): super().update
\* (CRUDBase.update) has assigned the request's fields to the loaded object
\* within the session's transaction, which is rolled back
FaUpdateInterrupted(id, patch) ==
    /\ backend = "fastapi"
    /\ requests < MaxRequests
    /\ id \in RecordIds
    /\ Stored(id)
    /\ requests' = requests + 1
    /\ response' = Response("save", 500)
    /\ UNCHANGED <<accessVars, backend, rounding, variables, records, meta, dj_save, dj_reset,
                   observedPartial>>

-----------------------------------------------------------------------------

\* the requests and routines that read or write formula_variables
StoreNext ==
    \/ \E name \in AdminNames, v \in CoefValues : DjSetValue(name, v)
    \/ \E name \in AdminNames : DjReset(name)
    \/ \E name \in AdminNames : DjResetView(name)
    \/ \E name \in AdminNames : DjDelete(name)
    \/ \E name \in AdminNames : FaReadFormulaVariable(name)
    \/ \E name \in AdminNames, v \in CoefValues : FaUpdateFormulaVariable(name, v)
    \/ \E name \in AdminNames : FaResetVariable(name)
    \/ \E name \in AdminNames : FaDeleteFormulaVariable(name)
    \/ ListVariables
    \/ FaResetAll
    \/ DjResetAllStart
    \/ \E name \in DjCoefNames \cup {FormName} : DjResetAllStep(name)
    \/ DjResetAllDone
    \/ InitDb
    \/ InitDatabase

\* the requests that create or update a plant record
RecordNext ==
    \/ \E raw \in FaRawInputs : FaCreate(raw)
    \/ \E id \in RecordIds, patch \in FaPatches : FaUpdate(id, patch)
    \/ \E id \in {0} \cup RecordIds, raw \in DjRawInputs : DjSaveStart(id, raw)
    \/ DjSaveLookup
    \/ DjSaveFinish

\* create_formula_variables.py: on an empty table the six rows of its
\* default_variables are created; on a table with rows the operator is asked:
\* 1 keeps them, 2 sets every value to its default_value, 3 deletes every row
\* and creates the six, any other answer exits
CreateFormulaVariables(choice) ==
    /\ backend = "fastapi"
    /\ requests < MaxRequests
    /\ StoreWrite(IF variables = EmptyStore \/ choice = "3"
                  THEN [n \in DOMAIN CreateDefaults |->
                           [value |-> CreateDefaults[n],
                            default_value |-> CreateDefaults[n]]]
                  ELSE IF choice = "2"
                  THEN [n \in DOMAIN variables |->
                           [variables[n] EXCEPT !.value = variables[n].default_value]]
                  ELSE variables)
    /\ requests' = requests + 1
    /\ UNCHANGED <<accessVars, backend, rounding, records, meta, dj_reset, observedPartial, response>>

\* the forms of the Django admin site that edit a coefficient row, and the
\* maintenance script of the FastAPI application
MaintenanceNext ==
    \/ \E choice \in Choices : CreateFormulaVariables(choice)
    \/ \E name \in AdminNames : DjChangeForm(name, FormName)

\* a record save that is interrupted before it completes
InterruptNext ==
    \/ DjSaveAbort
    \/ \E raw \in FaRawInputs : FaCreateInterrupted(raw)
    \/ \E id \in RecordIds, patch \in FaPatches : FaUpdateInterrupted(id, patch)

\* the two applications in normal operation: the API requests on the
\* coefficient store and the record saves, interleaved
Next == StoreNext \/ RecordNext

Spec == Init /\ [][Next]_vars

\* record saves and their interruption, with no change of the store
RecordSpec == Init /\ [][RecordNext \/ InterruptNext]_vars

\* the coefficient store on its own, with its maintenance operations: no
\* plant record is ever saved
StoreSpec == Init /\ [][StoreNext \/ MaintenanceNext]_vars

-----------------------------------------------------------------------------
(* Vocabulary of the properties *)

StoredIds == {i \in RecordIds : Stored(i)}

\* the fallbacks built into the calculation of the serving application
CodeFallback == IF backend = "django" THEN DjFallback ELSE FaFallback

\* the coefficient values of section 4.2 in a state of the store
Sec42Coefs(store) == [n \in DOMAIN Sec42Fallback |-> Get(store, n, Sec42Fallback[n])]

\* the eight formulas of section 4.2, each stored at two places
Sec42(raw, c, mode) ==
    [dm |-> c.dm_factor - raw.mv,
     rate_on_dm |-> RoundDiv(raw.rate * 10000, c.dm_factor - raw.mv, mode),
     oil_value |-> RoundDiv(c.oil_value_factor * raw.oil, 100, mode),
     net_wo_oil_fiber |-> c.net_factor - raw.oil - raw.fiber,
     starch_per_point |-> RoundDiv(raw.maize_rate * 100, c.starch_per_point_divisor, mode),
     starch_value |-> RoundDiv(raw.starch * raw.maize_rate, c.starch_per_point_divisor, mode),
     grain |-> RoundDiv(raw.starch * c.grain_factor, 100, mode),
     doc |-> RoundDiv(raw.starch * (100 - c.grain_factor), 100, mode)]

\* a valid input: six raw values, the four percentages within [0, 100]
ValidRaw(raw) ==
    /\ \A f \in RawFields : raw[f] # NULL
    /\ \A f \in {"mv", "oil", "fiber", "starch"} : raw[f] \in 0..10000

\* the formulas have a value: the input is valid and no divisor is zero
Sec42Defined(raw, c) ==
    /\ ValidRaw(raw)
    /\ c.dm_factor - raw.mv # 0
    /\ c.starch_per_point_divisor # 0

-----------------------------------------------------------------------------
(* Properties *)

\* C1: every stored record's eight derived fields equal the section 4.2
\* formulas applied to its stored raw fields and the coefficient values in
\* effect at its last save.
C1_DerivedMatchSection42 ==
    \A i \in StoredIds :
        \E s \in meta[i].window :
            Sec42Defined(records[i].raw, Sec42Coefs(s))
                => records[i].d = Sec42(records[i].raw, Sec42Coefs(s), rounding)

\* C2: a record save computes its derived fields from one coefficient
\* snapshot: the values it used are together the content of the store at one
\* moment of the save, never a mix of values from different moments.
C2_SaveUsesOneSnapshot ==
    \A i \in StoredIds :
        \E s \in meta[i].window :
            \A n \in DOMAIN meta[i].used :
                meta[i].used[n] = Get(s, n, CodeFallback[n])

\* C3: no listing and no record save observes a store in which reset_all has
\* reset some coefficients while others still hold their pre-reset values.
C3_ResetAllAtomicToReaders == ~observedPartial

\* C4: a save with mv equal to dm_factor (dm = 0) does not complete: no
\* stored record has mv equal to the dm_factor its save obtained.
C4_NoRecordSavedWithZeroDm ==
    \A i \in StoredIds : records[i].raw.mv # meta[i].used.dm_factor

\* C5: every invocation of the calculation either fails as a whole or
\* assigns all eight derived fields (stated for valid inputs).
C5_AllEightAssigned ==
    \A i \in StoredIds :
        ValidRaw(records[i].raw) => meta[i].assigned = DerivedFields

\* C6: two calculations with identical raw inputs and identical coefficient
\* snapshots yield identical derived fields, whatever the records held before.
C6_SameInputsSameDerived ==
    \A i, j \in StoredIds :
        (/\ ValidRaw(records[i].raw)
         /\ records[i].raw = records[j].raw
         /\ meta[i].window = meta[j].window
         /\ meta[i].used = meta[j].used)
            => records[i].d = records[j].d

\* C7: with any of the five coefficients absent from the store, the save
\* produces the derived fields it would produce if the absent coefficients
\* were present with the values 100, 60, 100, 64 and 0.70.
C7_AbsentCoefficientsFallBack ==
    \A i \in StoredIds :
        ValidRaw(records[i].raw) => records[i].d = meta[i].asIfPresent

\* C8: for every saved record with valid input (mv in [0,100]), dm + mv equals the
\* dm_factor value in effect at that save.
C8_DmPlusMvIsDmFactor ==
    \A i \in StoredIds :
        ValidRaw(records[i].raw)
            => /\ records[i].d.dm # NULL
               /\ records[i].d.dm + records[i].raw.mv = meta[i].used.dm_factor

\* C9: for every saved record with valid input (starch in [0,100]), the stored grain and
\* doc add up to the stored starch, at two decimal places.
C9_GrainPlusDocIsStarch ==
    \A i \in StoredIds :
        ValidRaw(records[i].raw)
            => /\ records[i].d.grain # NULL
               /\ records[i].d.doc # NULL
               /\ records[i].d.grain + records[i].d.doc = records[i].raw.starch

\* C10: set_value, reset and reset_all leave every field of every stored
\* plant record unchanged: a step that changes the coefficient store changes
\* no record.
C10_StoreOpsLeaveRecords == [][variables' # variables => records' = records]_vars

\* a record is stored and the store has since been changed by an administrator
C10_Witness ==
    \E i \in StoredIds : variables \notin meta[i].window

\* C11: once set_value(name, v) on a coefficient of section 4.2 has completed,
\* a record save that starts afterwards, before any further change of the
\* store, computes its derived fields with v: the save read the coefficient
\* under that name and the value it used is v.
C11_SetValueTakesEffect ==
    \A i \in StoredIds :
        \A s \in meta[i].window :
            meta[i].window = {s} =>
                \A n \in (DOMAIN Sec42Fallback) \cap (DOMAIN s) :
                    s[n].value # s[n].default_value
                        => /\ n \in DOMAIN meta[i].used
                           /\ meta[i].used[n] = s[n].value

\* C12: for every existing coefficient, whatever its current value, the
\* administrative reset of that one coefficient succeeds, and a read that
\* follows returns exactly its default_value.
C12_ResetThenGetIsDefault ==
    [][\A n \in AdminNames :
           (n \in DOMAIN variables
               /\ (FaResetVariable(n) \/ DjResetView(n) \/ DjReset(n)))
           => /\ response'.status = 200
              /\ n \in DOMAIN variables'
              /\ variables'[n].value = variables[n].default_value]_vars

\* C13: reset(name) changes nothing but the current value of the named
\* coefficient: the current value of every other coefficient, and the name
\* and default_value of every coefficient, are after the call what they were
\* before it.
C13_ResetChangesOnlyNamedValue ==
    [][\A n \in AdminNames :
           (FaResetVariable(n) \/ DjResetView(n) \/ DjReset(n))
           => /\ DOMAIN variables' = DOMAIN variables
              /\ \A k \in DOMAIN variables :
                    /\ variables'[k].default_value = variables[k].default_value
                    /\ k # n => variables'[k].value = variables[k].value]_vars

\* a reset has been carried out while another coefficient is off its default
C13_Witness ==
    /\ response = Response("reset", 200)
    /\ \E k \in DOMAIN variables : variables[k].value # variables[k].default_value

\* C14: get, set_value and reset called with a coefficient name that is not
\* defined in the store each fail with a not-found error, and the failed call
\* leaves the store (its names, every current and default value) unchanged.
C14_UnknownNameIsNotFound ==
    [][\A n \in AdminNames :
           (n \notin DOMAIN variables
               /\ \/ FaReadFormulaVariable(n)
                  \/ \E v \in CoefValues : FaUpdateFormulaVariable(n, v)
                  \/ FaResetVariable(n))
           => /\ response'.status = 404
              /\ variables' = variables]_vars

\* a request for an unknown name has been answered while the store has rows
C14_Witness ==
    /\ response.status = 404
    /\ response.op \in {"get", "set_value", "reset"}
    /\ DOMAIN variables # {}

\* C15: no coefficient update, reset or reset_all operation changes the name
\* of an existing coefficient: every name defined before such a step is
\* defined after it.
C15_NamesNeverChange ==
    [][(\/ \E n \in AdminNames, v \in CoefValues :
              DjSetValue(n, v) \/ FaUpdateFormulaVariable(n, v)
        \/ \E n \in AdminNames : DjChangeForm(n, FormName)
        \/ \E n \in AdminNames : DjReset(n) \/ DjResetView(n) \/ FaResetVariable(n)
        \/ FaResetAll
        \/ \E n \in DjCoefNames \cup {FormName} : DjResetAllStep(n))
       => DOMAIN variables \subseteq DOMAIN variables']_vars

\* C16: no operation the system exposes for coefficients removes one: every
\* coefficient name defined in the store stays defined after every step.
C16_NoCoefficientRemoved ==
    [][DOMAIN variables \subseteq DOMAIN variables']_vars

\* C19: after system initialization the store holds dm_factor,
\* oil_value_factor, net_factor, starch_per_point_divisor and grain_factor,
\* each with current value and default value 100, 60, 100, 64 and 0.70,
\* whichever initialization routine ran on the empty store.
C19_SeedingCreatesTheFive ==
    [][(variables = EmptyStore
           /\ (InitDb \/ InitDatabase \/ \E choice \in Choices : CreateFormulaVariables(choice)))
       => \A n \in DOMAIN Sec42Fallback :
             /\ n \in DOMAIN variables'
             /\ variables'[n] = [value |-> Sec42Fallback[n],
                                 default_value |-> Sec42Fallback[n]]]_vars

C18_PercentagesInRange ==
    \A i \in StoredIds :
        /\ \A f \in {"mv", "oil", "fiber", "starch"} :
              records[i].raw[f] # NULL => records[i].raw[f] \in 0..10000
        /\ \A f \in {"dm", "net_wo_oil_fiber"} :
              records[i].d[f] # NULL => records[i].d[f] \in 0..10000

\* C20: for every raw input with dm # 0 and every coefficient set, a saved
\* record stores oil_value = oil_value_factor * oil, net_wo_oil_fiber =
\* net_factor - oil - fiber, starch_per_point = maize_rate /
\* starch_per_point_divisor, starch_value = starch * starch_per_point and
\* rate_on_dm = (rate / dm) * 100, each rounded to two places; and rate 100,
\* mv 10, oil 5, fiber 3, starch 50, maize_rate 80 with the default
\* coefficients stores 90.00, 111.11, 300.00, 92.00, 1.25, 62.50, 35.00, 15.00.
\* (The coefficient set is the store the save ran against, unchanged while
\* it ran.)
C20_FormulasAndScenario ==
    \A i \in StoredIds :
        \A s \in meta[i].window :
            (meta[i].window = {s} /\ Sec42Defined(records[i].raw, Sec42Coefs(s)))
            => LET want == Sec42(records[i].raw, Sec42Coefs(s), rounding)
               IN  /\ \A f \in {"oil_value", "net_wo_oil_fiber", "starch_per_point",
                                "starch_value", "rate_on_dm"} :
                          records[i].d[f] = want[f]
                   /\ (records[i].raw = Scenario /\ Sec42Coefs(s) = Sec42Fallback)
                      => records[i].d =
                            [dm |-> 9000, rate_on_dm |-> 11111, oil_value |-> 30000,
                             net_wo_oil_fiber |-> 9200, starch_per_point |-> 125,
                             starch_value |-> 6250, grain |-> 3500, doc |-> 1500]

\* C21: once an administrator has set starch_per_point_divisor to 0, every
\* record save that follows fails and stores nothing: no stored record was
\* last saved against a store whose starch_per_point_divisor is 0.
C21_ZeroDivisorStoresNothing ==
    \A i \in StoredIds :
        \A s \in meta[i].window :
            (meta[i].window = {s} /\ "starch_per_point_divisor" \in DOMAIN s)
                => s["starch_per_point_divisor"].value # 0

\* C22: an update that changes mv stores rate_on_dm, starch_value, grain and
\* doc as the calculation of that update produces them from the raw inputs
\* alone: each equals what the same calculation gives when it starts with no
\* derived value of a previous save.
C22_DerivedFromThisCalculation ==
    [][\A id \in RecordIds :
          (/\ Stored(id)
           /\ records'[id].stored
           /\ records'[id].raw.mv # records[id].raw.mv)
          => LET fresh == IF backend = "fastapi"
                          THEN FaCalc(records'[id].raw, NoDerived, variables, rounding).d
                          ELSE DjCalc(records'[id].raw, meta'[id].used, rounding).d
             IN  \A f \in {"rate_on_dm", "starch_value", "grain", "doc"} :
                     records'[id].d[f] = fresh[f]]_vars

\* the coefficient requests of the two applications: update, reset, reset_all
CoefficientRequest ==
    \/ \E name \in AdminNames, v \in CoefValues : DjSetValue(name, v)
    \/ \E name \in AdminNames, v \in CoefValues : FaUpdateFormulaVariable(name, v)
    \/ \E name \in AdminNames : DjReset(name)
    \/ \E name \in AdminNames : DjResetView(name)
    \/ \E name \in AdminNames : FaResetVariable(name)
    \/ FaResetAll
    \/ DjResetAllStart
    \/ \E name \in DjCoefNames \cup {FormName} : DjResetAllStep(name)
    \/ DjResetAllDone

\* C23: no coefficient update, reset or reset_all request changes a
\* coefficient's default_value: every coefficient is still there after the
\* request, with the default_value it had before.
C23_DefaultValueNeverChanges ==
    [][CoefficientRequest =>
          \A n \in DOMAIN variables :
              /\ n \in DOMAIN variables'
              /\ variables'[n].default_value = variables[n].default_value]_vars

\* an update has moved one coefficient off its default and a reset has
\* answered since
C23_Witness ==
    /\ response = Response("reset", 200)
    /\ \E n \in DOMAIN variables : variables[n].value # variables[n].default_value

\* what a run of a seeding routine over the current store must satisfy: the
\* rows that exist keep value and default_value, exactly the missing names
\* are created, and a second run on the result changes nothing
SeedingKeeps(defaults) ==
    /\ \A n \in DOMAIN variables :
           n \in DOMAIN variables' /\ variables'[n] = variables[n]
    /\ DOMAIN variables' = (DOMAIN variables) \cup (DOMAIN defaults)
    /\ \A n \in (DOMAIN defaults) \ (DOMAIN variables) :
           variables'[n] = [value |-> defaults[n], default_value |-> defaults[n]]
    /\ Seeded(defaults)' = variables'

\* C24: seeding is idempotent and non-destructive: a run on a store that
\* already holds coefficients creates only the missing names and leaves value
\* and default_value of the existing ones, and a second run gives the same
\* store as the first.
C24_SeedingIdempotent ==
    [][/\ InitDb => SeedingKeeps(InitDbDefaults)
       /\ InitDatabase => SeedingKeeps(InitDatabaseDefaults)]_vars

\* both routines have run, the second over the rows of the first, one of
\* which an update had moved off its default
C24_Witness ==
    /\ (DOMAIN InitDbDefaults) \cup (DOMAIN InitDatabaseDefaults) \subseteq DOMAIN variables
    /\ requests = MaxRequests
    /\ \E n \in (DOMAIN InitDbDefaults) \cap (DOMAIN InitDatabaseDefaults) :
           variables[n].value # variables[n].default_value

-----------------------------------------------------------------------------
(* Plant-record endpoints: access control and pagination.  A row is kept as  *)
(* its plant_id and one editable column (code).                             *)

\* the values a PATCH writes to the code column
Codes == {"a", "b"}

\* page and per_page of a listing: absent, or a positive number
PageParams == {NULL, 1, 2}

\* the plant_id query parameter of a listing: absent, or a plant
PlantParams == {NoPlant} \cup Plants

\* bodies of PATCH /plant-records/{id}
PatchBodies == {"code" :> "b", ("code" :> "b") @@ ("plant_id" :> 2)}

PlantRow(plant_id, code) == [exists |-> TRUE, plant_id |-> plant_id, code |-> code]

RowIds == {i \in RecordIds : plant_rows[i].exists}

\* the id the database gives the next inserted plant record
NextRowId == CHOOSE i \in RecordIds \ RowIds : \A j \in RecordIds \ RowIds : i <= j

\* get_filtered / get_count: if plant_id: filter(PlantRecord.plant_id == plant_id)
Filtered(plant_id) ==
    {i \in RowIds : plant_id = NoPlant \/ plant_rows[i].plant_id = plant_id}

\* order_by(date.desc(), id.desc()).offset(skip).limit(limit)
Slice(ids, skip, limit) ==
    {i \in ids : LET before == Cardinality({j \in ids : j > i})
                 IN  before >= skip /\ before < skip + limit}

PlantsOf(ids) == {plant_rows[i].plant_id : i \in ids}

\* PlantRecordUpdate as app.schemas exports it (the class of
\* app/schemas/plant_data.py, imported last): the request body keeps the
\* fields the schema declares, and plant_id is not one of them
PlantRecordUpdate(body) ==
    [f \in (DOMAIN body) \cap {"code"} |-> body[f]]

PrAnswer(op, status, ids) ==
    [NoPrResponse EXCEPT !.op = op, !.status = status, !.plants = PlantsOf(ids)]

\* the access token of an account is presented: get_current_active_user
Authenticate(u) ==
    /\ backend = "fastapi"
    /\ u \in Accounts
    /\ current_user' = u
    /\ pr_response' = NoPrResponse
    /\ UNCHANGED <<plantVars, roleVars, accountVars, plant_rows>>

\* GET /plant-records/
ReadPlantRecords(plant_param, page, per_page) ==
    /\ backend = "fastapi"
    /\ current_user # NoUser
    /\ LET restricted == ~current_user.is_superuser
                         /\ current_user.category \in {"admin", "user"}
           plant_id == IF restricted THEN current_user.plant_id ELSE plant_param
           paginated == page # NULL /\ per_page # NULL
           skip == IF paginated THEN (page - 1) * per_page ELSE 0
           limit == IF paginated THEN per_page ELSE 100
           total == Cardinality(Filtered(plant_id))
       IN  IF restricted /\ current_user.plant_id = NoPlant
           THEN pr_response' = PrAnswer("list", 403, {})
           ELSE IF restricted /\ plant_param # NoPlant
                   /\ plant_param # current_user.plant_id
           THEN pr_response' = PrAnswer("list", 403, {})
           ELSE pr_response' =
                   [op |-> "list", status |-> 200,
                    plants |-> PlantsOf(Slice(Filtered(plant_id), skip, limit)),
                    paginated |-> paginated,
                    page |-> IF paginated THEN page ELSE 0,
                    per_page |-> IF paginated THEN per_page ELSE 0,
                    count |-> IF paginated THEN total ELSE 0,
                    next |-> paginated /\ page < (total \div per_page) + 1,
                    previous |-> paginated /\ page > 1]
    /\ UNCHANGED <<plantVars, roleVars, accountVars, plant_rows, current_user>>

\* POST /plant-records/
CreatePlantRecord(plant_id) ==
    /\ backend = "fastapi"
    /\ current_user # NoUser
    /\ RecordIds \ RowIds # {}
    /\ IF ~current_user.is_superuser
          /\ (current_user.plant_id = NoPlant \/ plant_id # current_user.plant_id)
       THEN /\ pr_response' = PrAnswer("create", 403, {})
            /\ UNCHANGED plant_rows
       ELSE /\ plant_rows' = [plant_rows EXCEPT ![NextRowId] = PlantRow(plant_id, "a")]
            /\ pr_response' = [NoPrResponse EXCEPT !.op = "create", !.status = 200,
                                                   !.plants = {plant_id}]
    /\ UNCHANGED <<plantVars, roleVars, accountVars, current_user>>

\* the check GET, PATCH and DELETE /plant-records/{id} share: 404 when the
\* row does not exist, 403 when a non-superuser has no plant or another one
RecordAccess(id) ==
    IF id \notin RowIds THEN 404
    ELSE IF ~current_user.is_superuser
            /\ (current_user.plant_id = NoPlant
                \/ plant_rows[id].plant_id # current_user.plant_id)
    THEN 403
    ELSE 200

\* GET /plant-records/{id}
ReadPlantRecord(id) ==
    /\ backend = "fastapi"
    /\ current_user # NoUser
    /\ pr_response' = PrAnswer("get", RecordAccess(id),
                               IF RecordAccess(id) = 200 THEN {id} ELSE {})
    /\ UNCHANGED <<plantVars, roleVars, accountVars, plant_rows, current_user>>

\* PATCH /plant-records/{id}
UpdatePlantRecord(id, body) ==
    /\ backend = "fastapi"
    /\ current_user # NoUser
    /\ IF RecordAccess(id) = 200
       THEN /\ plant_rows' = [plant_rows EXCEPT
                                 ![id] = CRUDBaseUpdate(@, PlantRecordUpdate(body))]
            /\ pr_response' = [NoPrResponse EXCEPT
                                  !.op = "patch", !.status = 200,
                                  !.plants = {plant_rows'[id].plant_id}]
       ELSE /\ pr_response' = PrAnswer("patch", RecordAccess(id), {})
            /\ UNCHANGED plant_rows
    /\ UNCHANGED <<plantVars, roleVars, accountVars, current_user>>

\* DELETE /plant-records/{id}
DeletePlantRecord(id) ==
    /\ backend = "fastapi"
    /\ current_user # NoUser
    /\ IF RecordAccess(id) = 200
       THEN /\ plant_rows' = [plant_rows EXCEPT ![id] = NoRow]
            /\ pr_response' = PrAnswer("delete", 200, {id})
       ELSE /\ pr_response' = PrAnswer("delete", RecordAccess(id), {})
            /\ UNCHANGED plant_rows
    /\ UNCHANGED <<plantVars, roleVars, accountVars, current_user>>

\* Django: PlantRecordSerializer.create through PlantRecordViewSet, open to
\* every authenticated user (IsPlantUser)
DjCreatePlantRecord(plant_id) ==
    /\ backend = "django"
    /\ RecordIds \ RowIds # {}
    /\ plant_rows' = [plant_rows EXCEPT ![NextRowId] = PlantRow(plant_id, "a")]
    /\ pr_response' = [NoPrResponse EXCEPT !.op = "create", !.status = 200,
                                           !.plants = {plant_id}]
    /\ UNCHANGED <<plantVars, roleVars, accountVars, current_user>>

\* django.core.paginator.Paginator.num_pages: ceil(count / per_page), and one
\* (empty) page when there is no row
NumPages(count, per_page) ==
    IF count = 0 THEN 1 ELSE (count + per_page - 1) \div per_page

\* Django: PlantRecordViewSet.list
DjListPlantRecords(plant_param, page, per_page) ==
    /\ backend = "django"
    /\ LET queryset == Filtered(plant_param)
           paginated == page # NULL /\ per_page # NULL
           count == Cardinality(queryset)
           num_pages == NumPages(count, per_page)
           \* paginator.get_page: a page past the end is the last page
           number == IF page > num_pages THEN num_pages ELSE page
       IN  pr_response' =
               IF paginated
               THEN [op |-> "list", status |-> 200,
                     plants |-> PlantsOf(Slice(queryset, (number - 1) * per_page, per_page)),
                     paginated |-> TRUE, page |-> page, per_page |-> per_page,
                     count |-> count,
                     next |-> page < num_pages,
                     previous |-> page > 1]
               ELSE PrAnswer("list", 200, queryset)
    /\ UNCHANGED <<plantVars, roleVars, accountVars, plant_rows, current_user>>

\* the requests to the plant-record endpoints
AccessNext ==
    \/ \E u \in Accounts : Authenticate(u)
    \/ \E p \in PlantParams, page \in PageParams, per_page \in PageParams :
           ReadPlantRecords(p, page, per_page)
    \/ \E p \in Plants : CreatePlantRecord(p)
    \/ \E id \in RecordIds : ReadPlantRecord(id)
    \/ \E id \in RecordIds, body \in PatchBodies : UpdatePlantRecord(id, body)
    \/ \E id \in RecordIds : DeletePlantRecord(id)
    \/ \E p \in Plants : DjCreatePlantRecord(p)
    \/ \E p \in PlantParams, page \in PageParams, per_page \in PageParams :
           DjListPlantRecords(p, page, per_page)

AccessSpec == Init /\ [][AccessNext]_vars

\* C25: a request by a non-superuser assigned to plant P returns, creates,
\* modifies or deletes only records of plant P, and leaves no record of P
\* with another plant_id.
C25_OnlyOwnPlantRecords ==
    [][(/\ ~current_user'.is_superuser
        /\ current_user'.plant_id # NoPlant)
       => /\ pr_response'.plants \subseteq {current_user'.plant_id}
          /\ current_user' = current_user =>
                \A i \in RecordIds :
                    plant_rows'[i] # plant_rows[i] =>
                        /\ plant_rows[i].exists =>
                               plant_rows[i].plant_id = current_user.plant_id
                        /\ plant_rows'[i].exists =>
                               plant_rows'[i].plant_id = current_user.plant_id]_vars

\* C26: in a paginated listing with page >= 1 and per_page >= 1, next is
\* true exactly when a matching record lies beyond the page
\* (page * per_page < total) and previous exactly when page > 1.
C26_NextAndPreviousFlags ==
    (pr_response.op = "list" /\ pr_response.status = 200 /\ pr_response.paginated)
    => /\ pr_response.next <=> (pr_response.page * pr_response.per_page < pr_response.count)
       /\ pr_response.previous <=> (pr_response.page > 1)

-----------------------------------------------------------------------------
(* Django users application: the role hierarchy.  RoleSerializer.validate   *)
(* runs on the rows the request has read; serializer.save() follows in the  *)
(* same request, and requests of different workers interleave.              *)

ExistingRoles == {i \in RoleIds : roles[i].exists}

\* role.children.all()
Children(id) == {j \in ExistingRoles : roles[j].parent = id}

RECURSIVE Closure(_)
Closure(S) ==
    LET next == S \cup UNION {Children(j) : j \in S}
    IN  IF next = S THEN S ELSE Closure(next)

\* Role.get_descendants
Descendants(id) == Closure(Children(id))

\* the recursion of get_descendants does not end: a descendant is its own
\* descendant (RecursionError, the request fails)
Diverges(id) == \E j \in {id} \cup Descendants(id) : j \in Descendants(j)

\* the bodies of role requests: the fields category and parent, each present
\* or not (a PATCH, or a POST that leaves category to its default)
RoleData ==
    {"category" :> c : c \in Categories}
    \cup {"parent" :> p : p \in {NoParent} \cup RoleIds}
    \cup {("category" :> c) @@ ("parent" :> p) :
             c \in Categories, p \in {NoParent} \cup RoleIds}

\* data.get(field)
DataGet(data, field, absent) == IF field \in DOMAIN data THEN data[field] ELSE absent

\* RoleSerializer.validate(data) with self.instance = instance (0: a create)
RoleValid(instance, data) ==
    LET parent == DataGet(data, "parent", NoParent)
        category == DataGet(data, "category", "absent")
    IN  parent # NoParent =>
            /\ parent \in ExistingRoles
            /\ ~(instance # 0 /\ parent = instance)
            /\ category # "SUPERADMIN"
            /\ roles[parent].category # "USER"
            /\ ~(category = "ADMIN" /\ roles[parent].category # "SUPERADMIN")
            /\ ~(category = "USER" /\ roles[parent].category \notin {"ADMIN", "SUPERADMIN"})
            /\ instance # 0 => (~Diverges(instance) /\ parent \notin Descendants(instance))

FreeRoleIds == RoleIds \ ExistingRoles

\* POST /roles/: validate, then Role.save computes level from the parent
RoleCreate(data) ==
    /\ backend = "django"
    /\ requests < MaxRequests
    /\ FreeRoleIds # {}
    /\ RoleValid(0, data)
    /\ LET id == CHOOSE i \in FreeRoleIds : \A j \in FreeRoleIds : i <= j
           parent == DataGet(data, "parent", NoParent)
           level == IF parent = NoParent THEN 0 ELSE roles[parent].level + 1
       IN  roles' = [roles EXCEPT ![id] =
                        RoleRow(DataGet(data, "category", "USER"), parent, level)]
    /\ requests' = requests + 1
    /\ UNCHANGED <<backend, rounding, variables, records, meta, dj_save, dj_reset,
                   observedPartial, response, prVars, accountVars, role_tx>>

\* PUT or PATCH /roles/{id}/ up to serializer.is_valid(): get_object loads
\* the row, validate reads parent and descendants; validated_data holds the
\* parent as the Role object read now
RoleUpdateValidate(id, data) ==
    /\ backend = "django"
    /\ requests < MaxRequests
    /\ id \in ExistingRoles
    /\ Cardinality(role_tx) < MaxInFlight
    /\ RoleValid(id, data)
    /\ role_tx' = role_tx \cup
           {[id |-> id,
             category |-> DataGet(data, "category", roles[id].category),
             parent |-> DataGet(data, "parent", roles[id].parent),
             parent_read |-> "parent" \in DOMAIN data
                             /\ data["parent"] # NoParent,
             parent_level |-> IF "parent" \in DOMAIN data /\ data["parent"] # NoParent
                              THEN roles[data["parent"]].level ELSE 0]}
    /\ requests' = requests + 1
    /\ UNCHANGED <<backend, rounding, variables, records, meta, dj_save, dj_reset,
                   observedPartial, response, prVars, accountVars, roles>>

\* the validated updates a worker can hold
RoleTxs == [id : RoleIds, category : Categories, parent : {NoParent} \cup RoleIds,
            parent_read : BOOLEAN, parent_level : 0..MaxRequests]

\* perform_update: serializer.save() writes every column of the instance;
\* Role.save takes level from self.parent, the object of validated_data or,
\* when the request did not name a parent, the row read now
RoleUpdateSave(tx) ==
    /\ backend = "django"
    /\ tx \in role_tx
    /\ LET level == IF tx.parent = NoParent THEN 0
                    ELSE IF tx.parent_read THEN tx.parent_level + 1
                    ELSE roles[tx.parent].level + 1
       IN  roles' = [roles EXCEPT ![tx.id] = RoleRow(tx.category, tx.parent, level)]
    /\ role_tx' = role_tx \ {tx}
    /\ UNCHANGED <<plantVars, prVars, accountVars>>

\* the role requests
RoleNext ==
    \/ \E data \in RoleData : RoleCreate(data)
    \/ \E id \in RoleIds, data \in RoleData : RoleUpdateValidate(id, data)
    \/ \E tx \in RoleTxs : RoleUpdateSave(tx)

RoleSpec == Init /\ [][RoleNext]_vars

\* C27: after any sequence of role creations and role updates every role has
\* level 0 when it has no parent and the level of its parent plus one
\* otherwise.
C27_LevelFollowsParent ==
    role_tx = {} =>
        \A i \in ExistingRoles :
            roles[i].level = IF roles[i].parent = NoParent THEN 0
                             ELSE roles[roles[i].parent].level + 1

\* C28: after any sequence of role creations and validated role updates,
\* two of them validated concurrently included, the parent relation has no
\* cycle: no role is its own descendant.
C28_NoParentCycle ==
    role_tx = {} => \A i \in ExistingRoles : i \notin Descendants(i)

\* C29: after any sequence of role creations and full or partial updates a
\* SUPERADMIN role has no parent, the parent of an ADMIN role is a SUPERADMIN
\* role, the parent of a USER role is an ADMIN or SUPERADMIN role, and no
\* role has a USER role as parent.
C29_CategoryHierarchy ==
    role_tx = {} =>
        \A i \in ExistingRoles :
            LET p == roles[i].parent
            IN  /\ roles[i].category = "SUPERADMIN" => p = NoParent
                /\ p # NoParent =>
                      /\ roles[p].category # "USER"
                      /\ roles[i].category = "ADMIN" => roles[p].category = "SUPERADMIN"
                      /\ roles[i].category = "USER" =>
                             roles[p].category \in {"ADMIN", "SUPERADMIN"}

-----------------------------------------------------------------------------
(* Django users application: accounts and the forced password change *)

ExistingUsers == {i \in UserIds : users[i].exists}

\* the actions of UserViewSet, PlantViewSet and RoleViewSet other than
\* create, change_password and reset_password
ManagementActions == {"users.list", "users.update", "users.dashboard_stats",
                      "users.check_password_change_required", "users.check_token",
                      "plants.list", "roles.list", "roles.hierarchy"}

\* IsSuperAdmin.has_permission
IsSuperAdmin(actor) == users[actor].category = "SUPERADMIN"

\* HasChangedPasswordOrIsPasswordChange.has_permission
HasChangedPasswordOrIsPasswordChange(actor, action) ==
    action = "users.change_password" \/ ~users[actor].force_password_change

\* get_permissions of the three view sets: UserViewSet drops IsSuperAdmin for
\* change_password and dashboard_stats, PasswordChangeRequiredMixin adds the
\* password check everywhere
Permitted(actor, action) ==
    /\ actor \in ExistingUsers
    /\ action \in {"users.change_password", "users.dashboard_stats"} \/ IsSuperAdmin(actor)
    /\ HasChangedPasswordOrIsPasswordChange(actor, action)

MgmtAnswer(actor, action, target, status) ==
    [actor |-> actor, action |-> action, target |-> target, status |-> status]

\* any user, plant or role endpoint that leaves the accounts as they are
ManagementRequest(actor, action) ==
    /\ backend = "django"
    /\ actor \in ExistingUsers
    /\ mgmt_response' = MgmtAnswer(actor, action, 0,
                                   IF Permitted(actor, action) THEN 200 ELSE 403)
    /\ UNCHANGED <<plantVars, prVars, roleVars, users>>

\* POST /users/: UserSerializer.create -> create_user -> User.save
UserCreate(actor, category) ==
    /\ backend = "django"
    /\ actor \in ExistingUsers
    /\ UserIds \ ExistingUsers # {}
    /\ IF Permitted(actor, "users.create")
       THEN LET id == CHOOSE i \in UserIds \ ExistingUsers :
                          \A j \in UserIds \ ExistingUsers : i <= j
            IN  /\ users' = [users EXCEPT ![id] = UserSave(Account(category, TRUE, FALSE))]
                /\ mgmt_response' = MgmtAnswer(actor, "users.create", id, 201)
       ELSE /\ mgmt_response' = MgmtAnswer(actor, "users.create", 0, 403)
            /\ UNCHANGED users
    /\ UNCHANGED <<plantVars, prVars, roleVars>>

\* POST /users/{pk}/change-password/: get_object is the user of the URL;
\* accepted says that the body is valid and, when the old password is
\* checked, that it is the right one
ChangePassword(actor, pk, accepted) ==
    /\ backend = "django"
    /\ actor \in ExistingUsers
    /\ IF ~Permitted(actor, "users.change_password")
       THEN /\ mgmt_response' = MgmtAnswer(actor, "users.change_password", pk, 403)
            /\ UNCHANGED users
       ELSE IF pk \notin ExistingUsers
       THEN /\ mgmt_response' = MgmtAnswer(actor, "users.change_password", pk, 404)
            /\ UNCHANGED users
       ELSE IF ~accepted
       THEN /\ mgmt_response' = MgmtAnswer(actor, "users.change_password", pk, 400)
            /\ UNCHANGED users
       ELSE /\ users' = [users EXCEPT ![pk].has_changed_password = TRUE,
                                      ![pk].force_password_change = FALSE]
            /\ mgmt_response' = MgmtAnswer(actor, "users.change_password", pk, 200)
    /\ UNCHANGED <<plantVars, prVars, roleVars>>

\* a reset_password that clears the forced change as well
ResetPasswordClearsForce(actor, owner) ==
    /\ backend = "django"
    /\ actor \in ExistingUsers
    /\ IF ~Permitted(actor, "users.reset_password")
       THEN /\ mgmt_response' = MgmtAnswer(actor, "users.reset_password", 0, 403)
            /\ UNCHANGED users
       ELSE IF owner \notin ExistingUsers
       THEN /\ mgmt_response' = MgmtAnswer(actor, "users.reset_password", 0, 400)
            /\ UNCHANGED users
       ELSE /\ users' = [users EXCEPT ![owner].has_changed_password = TRUE,
                                      ![owner].force_password_change = FALSE]
            /\ mgmt_response' = MgmtAnswer(actor, "users.reset_password", owner, 200)
    /\ UNCHANGED <<plantVars, prVars, roleVars>>

\* POST /users/reset_password/ with the token of owner (0: no user holds the
\* token): the new password is set and has_changed_password with it
ResetPassword(actor, owner) ==
    /\ backend = "django"
    /\ actor \in ExistingUsers
    /\ IF ~Permitted(actor, "users.reset_password")
       THEN /\ mgmt_response' = MgmtAnswer(actor, "users.reset_password", 0, 403)
            /\ UNCHANGED users
       ELSE IF owner \notin ExistingUsers
       THEN /\ mgmt_response' = MgmtAnswer(actor, "users.reset_password", 0, 400)
            /\ UNCHANGED users
       ELSE /\ users' = [users EXCEPT ![owner].has_changed_password = TRUE]
            /\ mgmt_response' = MgmtAnswer(actor, "users.reset_password", owner, 200)
    /\ UNCHANGED <<plantVars, prVars, roleVars>>

\* the requests to the user, plant and role view sets
AccountNext ==
    \/ \E actor \in UserIds, action \in ManagementActions : ManagementRequest(actor, action)
    \/ \E actor \in UserIds, category \in Categories : UserCreate(actor, category)
    \/ \E actor \in UserIds, pk \in UserIds, accepted \in BOOLEAN :
           ChangePassword(actor, pk, accepted)
    \/ \E actor \in UserIds, owner \in {0} \cup UserIds : ResetPassword(actor, owner)

AccountSpec == Init /\ [][AccountNext]_vars

====
